---------------------------- MODULE Spec2Model ----------------------------
(***************************************************************************)
(* A model of mempool-vortex: the mempool listener (src/src/mempool.rs),   *)
(* the opportunity detector (src/src/searcher.rs) and the bundle builder   *)
(* and relay submission pipeline (src/src/bundler.rs).                     *)
(*                                                                         *)
(* U256 values are unbounded naturals written as little-endian sequences   *)
(* of limbs in base 10^4, so that the program's constants (10^18, 5^18,    *)
(* 50^9, 300000 * 20^9, ...) are computed exactly as the code computes     *)
(* them; a value fits the type iff it is below 2^256.                      *)
(***************************************************************************)
EXTENDS Integers, Sequences, FiniteSets, TLC

(***************************************************************************)
(* Natural-number arithmetic on limb sequences (ethers::types::U256).      *)
(***************************************************************************)
Base == 10 ^ 4

RECURSIVE Norm(_)
Norm(a) ==
    IF a # <<>> /\ a[Len(a)] = 0 THEN Norm(SubSeq(a, 1, Len(a) - 1)) ELSE a

RECURSIVE U(_)
U(n) == IF n = 0 THEN <<>> ELSE <<n % Base>> \o U(n \div Base)

Limb(a, i) == IF i <= Len(a) THEN a[i] ELSE 0

RECURSIVE CmpAt(_, _, _)
CmpAt(a, b, i) ==
    IF i = 0 THEN 0
    ELSE IF a[i] < b[i] THEN -1
    ELSE IF a[i] > b[i] THEN 1
    ELSE CmpAt(a, b, i - 1)

Cmp(a, b) ==
    IF Len(a) < Len(b) THEN -1
    ELSE IF Len(a) > Len(b) THEN 1
    ELSE CmpAt(a, b, Len(a))

Lt(a, b) == Cmp(a, b) = -1
Gt(a, b) == Cmp(a, b) = 1
Le(a, b) == Cmp(a, b) # 1
Ge(a, b) == Cmp(a, b) # -1

RECURSIVE AddC(_, _, _, _)
AddC(a, b, i, c) ==
    IF i > Len(a) /\ i > Len(b)
    THEN (IF c = 0 THEN <<>> ELSE <<c>>)
    ELSE LET s == Limb(a, i) + Limb(b, i) + c
         IN  <<s % Base>> \o AddC(a, b, i + 1, s \div Base)

Add(a, b) == AddC(a, b, 1, 0)

RECURSIVE SubB(_, _, _, _)
SubB(a, b, i, br) ==
    IF i > Len(a) THEN <<>>
    ELSE LET d == Limb(a, i) - Limb(b, i) - br
         IN  <<IF d < 0 THEN d + Base ELSE d>>
                 \o SubB(a, b, i + 1, IF d < 0 THEN 1 ELSE 0)

\* a - b for a >= b
Sub(a, b) == Norm(SubB(a, b, 1, 0))

RECURSIVE MulLimb(_, _, _, _)
MulLimb(a, m, i, c) ==
    IF i > Len(a)
    THEN (IF c = 0 THEN <<>> ELSE <<c>>)
    ELSE LET p == a[i] * m + c
         IN  <<p % Base>> \o MulLimb(a, m, i + 1, p \div Base)

RECURSIVE MulR(_, _, _)
MulR(a, b, j) ==
    IF j > Len(b) THEN <<>>
    ELSE Add(MulLimb(a, b[j], 1, 0), <<0>> \o MulR(a, b, j + 1))

Mul(a, b) == Norm(MulR(a, b, 1))

RECURSIVE DivR(_, _, _, _)
DivR(a, d, i, r) ==
    IF i = 0 THEN <<>>
    ELSE LET cur == r * Base + a[i]
         IN  DivR(a, d, i - 1, cur % d) \o <<cur \div d>>

\* floor(a / d) for a divisor 0 < d <= Base
DivSmall(a, d) == Norm(DivR(a, d, Len(a), 0))

RECURSIVE ModR(_, _, _, _)
ModR(a, d, i, r) ==
    IF i = 0 THEN r ELSE ModR(a, d, i - 1, (r * Base + a[i]) % d)

\* a mod d for a divisor 0 < d <= Base
ModSmall(a, d) == ModR(a, d, Len(a), 0)

RECURSIVE Pow(_, _)
Pow(a, n) == IF n = 0 THEN U(1) ELSE Mul(a, Pow(a, n - 1))

\* U256::MAX + 1
TwoPow256 == Pow(U(2 ^ 16), 16)
\* u64::MAX + 1
TwoPow64 == Pow(U(2 ^ 16), 4)
E18 == Pow(U(10), 18)
FitsU256(a) == Lt(a, TwoPow256)

(***************************************************************************)
(* Byte strings (ethers::types::Bytes) and the 32-byte big-endian words.   *)
(***************************************************************************)
Zeros(n) == [i \in 1..n |-> 0]

RECURSIVE FromBigEndianAt(_, _, _)
FromBigEndianAt(bytes, i, acc) ==
    IF i > Len(bytes) THEN acc
    ELSE LET nxt == Norm(MulLimb(acc, 256, 1, bytes[i]))
         IN  IF nxt = <<>>
             THEN FromBigEndianAt(bytes, i + 1, <<>>)
             ELSE FromBigEndianAt(bytes, i + 1, nxt)

\* U256::from_big_endian(slice)
from_big_endian(bytes) == FromBigEndianAt(bytes, 1, <<>>)

RECURSIVE ToBigEndianN(_, _)
ToBigEndianN(a, n) ==
    IF n = 0 THEN <<>>
    ELSE LET q == DivSmall(a, 256)
         IN  IF q = <<>>
             THEN Zeros(n - 1) \o <<ModSmall(a, 256)>>
             ELSE ToBigEndianN(q, n - 1) \o <<ModSmall(a, 256)>>

\* U256::to_big_endian(&mut [u8; 32])
to_big_endian(a) == ToBigEndianN(a, 32)


(***************************************************************************)
(* Option<T>, addresses and the transaction (ethers::types::Transaction).  *)
(***************************************************************************)
Some(v) == [some |-> TRUE, v |-> v]
NoneU256 == [some |-> FALSE, v |-> <<>>]
NoneAddr == [some |-> FALSE, v |-> "0x0"]

\* Address::zero(); also Address::default()
AddressZero == "0x0"

\* Option::unwrap_or_default()
unwrap_or_default(o, dflt) == IF o.some THEN o.v ELSE dflt

(***************************************************************************)
(* searcher.rs: classification.                                            *)
(***************************************************************************)
SelTransfer == <<169, 5, 156, 187>>      \* 0xa9059cbb
SelV2Swap   == <<56, 237, 23, 57>>       \* 0x38ed1739
SelV3Swap   == <<65, 75, 243, 137>>      \* 0x414bf389

TxUnknown == [kind |-> "Unknown"]

\* a slice out of range panics: the classification returns nothing
TxPanic == [kind |-> "Panic"]

\* whether &input[lo..hi] lies within the input; the slice panics otherwise
SliceInRange(input, lo, hi) == lo <= hi /\ hi <= Len(input)

\* &input[lo..hi]
Slice(input, lo, hi) == SubSeq(input, lo + 1, hi)

\* a mutant: the selector is read whatever the length
NeverTooShort(input) == FALSE

\* input.len() < 4
TooShortForSelector(input) == Len(input) < 4

\* input[4..36] of swapExactTokensForTokens
decode_v2_amount(input) == from_big_endian(Slice(input, 4, 36))

decode_transaction_type(tx) ==
    LET input == tx.input
    IN  IF TooShortForSelector(input) THEN TxUnknown
        ELSE IF ~SliceInRange(input, 0, 4) THEN TxPanic
        ELSE LET selector == Slice(input, 0, 4)
             IN  IF selector = SelTransfer
                 THEN IF Len(input) >= 68
                      THEN IF ~SliceInRange(input, 36, 68) THEN TxPanic
                           ELSE [kind   |-> "ERC20Transfer",
                                 token  |-> unwrap_or_default(tx.to, AddressZero),
                                 amount |-> from_big_endian(Slice(input, 36, 68))]
                      ELSE TxUnknown
                 ELSE IF selector = SelV2Swap
                 THEN IF Len(input) >= 68
                      THEN IF ~SliceInRange(input, 4, 36) THEN TxPanic
                           ELSE [kind      |-> "UniswapV2Swap",
                                 token_in  |-> AddressZero,
                                 token_out |-> AddressZero,
                                 amount_in |-> decode_v2_amount(input)]
                      ELSE TxUnknown
                 ELSE IF selector = SelV3Swap
                 THEN [kind      |-> "UniswapV3Swap",
                       token_in  |-> AddressZero,
                       token_out |-> AddressZero,
                       amount_in |-> <<>>]
                 ELSE TxUnknown

\* a mutant: no minimum amount
no_min_arbitrage_amount == <<>>

\* U256::from(10).pow(18.into()): the arbitrage threshold
MinArbitrageAmount == Pow(U(10), 18)
\* U256::from(5).pow(18.into()): the sandwich threshold
min_sandwich_amount == Pow(U(5), 18)
\* U256::from(50).pow(9.into()): the sandwich gas-price ceiling
max_profitable_gas == Pow(U(50), 9)

IsSwap(tx_type) == tx_type.kind \in {"UniswapV2Swap", "UniswapV3Swap"}

(***************************************************************************)
(* searcher.rs: gas-cost and profit estimates.                             *)
(***************************************************************************)
\* a mutant: 300k gas at 20 gwei, 20 * 10^9 wei
arbitrage_gas_cost_at_20_gwei == Mul(U(300000), Mul(U(20), Pow(U(10), 9)))

estimate_arbitrage_gas_cost == Mul(U(300000), Pow(U(20), 9))

estimate_sandwich_gas_cost(gas_price) == Mul(U(400000), gas_price)

estimate_liquidation_gas_cost == Mul(U(500000), Pow(U(25), 9))

calculate_sandwich_profit(victim_amount, frontrun_amount) ==
    DivSmall(Mul(frontrun_amount, U(50)), 10000)

\* the code's price oracle: fixed prices on three venues
simulate_dex_prices ==
    << [dex |-> "UniswapV2", price |-> Mul(U(1000), Pow(U(10), 18))],
       [dex |-> "SushiSwap", price |-> Mul(U(1002), Pow(U(10), 18))],
       [dex |-> "UniswapV3", price |-> Mul(U(999), Pow(U(10), 18))] >>

\* the code's position oracle: one Aave position; health factors are in
\* hundredths (0.95 is 95, 1.0 is 100)
get_mock_liquidation_positions ==
    << [protocol          |-> "Aave",
        owner             |-> "0x1234567890abcdef",
        collateral_token  |-> "0xa0b86a33",
        debt_token        |-> "0xc02aaa39",
        collateral_amount |-> Mul(U(10000), Pow(U(10), 6)),
        debt_amount       |-> Mul(U(4), Pow(U(10), 18)),
        health_factor     |-> 95] >>

(***************************************************************************)
(* searcher.rs: the three strategies.  A strategy yields an opportunity,   *)
(* OppNone, or OppPanic when a U256 operation overflows (the uint crate    *)
(* panics on overflow of *, + and -).                                      *)
(***************************************************************************)
OppNone  == [kind |-> "None"]
OppPanic == [kind |-> "Panic"]

\* Iterator::min_by: the first of several equally minimum elements
RECURSIVE MinByAt(_, _, _)
MinByAt(prices, i, best) ==
    IF i > Len(prices) THEN best
    ELSE MinByAt(prices, i + 1,
                 IF Lt(prices[i].price, prices[best].price) THEN i ELSE best)

\* Iterator::max_by: the last of several equally maximum elements
RECURSIVE MaxByAt(_, _, _)
MaxByAt(prices, i, best) ==
    IF i > Len(prices) THEN best
    ELSE MaxByAt(prices, i + 1,
                 IF Ge(prices[i].price, prices[best].price) THEN i ELSE best)

\* a mutant: the first venue is taken, whatever its price
first_venue(prices) == 1

min_by(prices) == MinByAt(prices, 2, 1)
max_by(prices) == MaxByAt(prices, 2, 1)

detect_arbitrage(tx, tx_type, prices) ==
    IF ~IsSwap(tx_type) THEN OppNone
    ELSE IF Lt(tx_type.amount_in, MinArbitrageAmount) THEN OppNone
    ELSE IF prices = <<>> THEN OppNone
    ELSE LET best_buy  == prices[min_by(prices)]
             best_sell == prices[max_by(prices)]
             price_diff == Sub(best_sell.price, best_buy.price)
             estimated_gas_cost == estimate_arbitrage_gas_cost
         IN  IF Gt(price_diff, estimated_gas_cost)
             THEN [kind           |-> "Arbitrage",
                   token_a        |-> tx_type.token_in,
                   token_b        |-> tx_type.token_out,
                   buy_dex        |-> best_buy.dex,
                   sell_dex       |-> best_sell.dex,
                   profit_eth     |-> price_diff,
                   gas_cost_eth   |-> estimated_gas_cost,
                   net_profit_eth |-> Sub(price_diff, estimated_gas_cost)]
             ELSE OppNone

detect_sandwich_opportunity(tx, tx_type) ==
    IF ~IsSwap(tx_type) THEN OppNone
    ELSE LET amount_in == tx_type.amount_in
             gas_price == unwrap_or_default(tx.gas_price, <<>>)
             frontrun_amount == DivSmall(amount_in, 10)
             backrun_amount == DivSmall(Mul(frontrun_amount, U(105)), 100)
             estimated_profit ==
                 calculate_sandwich_profit(amount_in, frontrun_amount)
             gas_cost == estimate_sandwich_gas_cost(gas_price)
         IN  IF Lt(amount_in, min_sandwich_amount) THEN OppNone
             ELSE IF Gt(gas_price, max_profitable_gas) THEN OppNone
             ELSE IF ~FitsU256(Mul(frontrun_amount, U(105))) THEN OppPanic
             ELSE IF ~FitsU256(Mul(frontrun_amount, U(50))) THEN OppPanic
             ELSE IF ~FitsU256(gas_cost) THEN OppPanic
             ELSE IF Gt(estimated_profit, gas_cost)
             THEN [kind                 |-> "Sandwich",
                   victim_tx_hash       |-> tx.hash,
                   token_in             |-> tx_type.token_in,
                   token_out            |-> tx_type.token_out,
                   victim_amount_in     |-> amount_in,
                   frontrun_amount      |-> frontrun_amount,
                   backrun_amount       |-> backrun_amount,
                   estimated_profit_eth |-> estimated_profit,
                   gas_cost_eth         |-> gas_cost]
             ELSE OppNone

\* a mutant: position i is liquidated on its bonus alone
LiquidationOnBonusAlone(positions, i) ==
    IF i > Len(positions) THEN OppNone
    ELSE LET position == positions[i]
             liquidation_bonus == DivSmall(position.collateral_amount, 20)
         IN  IF Gt(liquidation_bonus, estimate_liquidation_gas_cost)
             THEN [kind                  |-> "Liquidation",
                   protocol              |-> position.protocol,
                   position_owner        |-> position.owner,
                   collateral_token      |-> position.collateral_token,
                   debt_token            |-> position.debt_token,
                   collateral_amount     |-> position.collateral_amount,
                   debt_amount           |-> position.debt_amount,
                   liquidation_bonus_eth |-> liquidation_bonus,
                   health_factor         |-> position.health_factor]
             ELSE OppNone

RECURSIVE LiquidationFrom(_, _)
LiquidationFrom(positions, i) ==
    IF i > Len(positions) THEN OppNone
    ELSE LET position == positions[i]
             liquidation_bonus == DivSmall(position.collateral_amount, 20)
             gas_cost == estimate_liquidation_gas_cost
         IN  IF position.health_factor < 100 /\ Gt(liquidation_bonus, gas_cost)
             THEN [kind                  |-> "Liquidation",
                   protocol              |-> position.protocol,
                   position_owner        |-> position.owner,
                   collateral_token      |-> position.collateral_token,
                   debt_token            |-> position.debt_token,
                   collateral_amount     |-> position.collateral_amount,
                   debt_amount           |-> position.debt_amount,
                   liquidation_bonus_eth |-> liquidation_bonus,
                   health_factor         |-> position.health_factor]
             ELSE LiquidationFrom(positions, i + 1)

detect_liquidation_opportunity(positions) == LiquidationFrom(positions, 1)

(***************************************************************************)
(* searcher.rs: selection of the most profitable candidate.                *)
(***************************************************************************)
calculate_net_profit(opportunity) ==
    IF opportunity.kind = "Arbitrage" THEN opportunity.net_profit_eth
    ELSE IF opportunity.kind = "Sandwich"
    THEN IF Gt(opportunity.estimated_profit_eth, opportunity.gas_cost_eth)
         THEN Sub(opportunity.estimated_profit_eth, opportunity.gas_cost_eth)
         ELSE <<>>
    ELSE LET gas_cost == estimate_liquidation_gas_cost
         IN  IF Gt(opportunity.liquidation_bonus_eth, gas_cost)
             THEN Sub(opportunity.liquidation_bonus_eth, gas_cost)
             ELSE <<>>

\* a mutant: the comparator of the sort is reversed (ascending order)
SortBeforeAscending(a, b) ==
    Lt(calculate_net_profit(a), calculate_net_profit(b))

\* the comparator of sort_by: a goes before b iff profit_b.cmp(&profit_a) is
\* Less, i.e. a's net profit is strictly greater (descending order)
SortBefore(a, b) == Gt(calculate_net_profit(a), calculate_net_profit(b))

\* slice::sort_by is stable: an element is inserted after every element that
\* does not go after it
RECURSIVE InsertStable(_, _)
InsertStable(sorted, x) ==
    IF sorted = <<>> THEN <<x>>
    ELSE IF SortBefore(x, Head(sorted))
    THEN <<x>> \o sorted
    ELSE <<Head(sorted)>> \o InsertStable(Tail(sorted), x)

RECURSIVE SortStable(_, _, _)
SortStable(opps, i, acc) ==
    IF i > Len(opps) THEN acc
    ELSE SortStable(opps, i + 1, InsertStable(acc, opps[i]))

select_best_opportunity(opportunities) ==
    IF opportunities = <<>> THEN OppNone
    ELSE Head(SortStable(opportunities, 1, <<>>))

PushIfSome(opportunities, o) ==
    IF o.kind \in {"None", "Panic"} THEN opportunities
    ELSE Append(opportunities, o)

\* the candidates evaluate_opportunity collects, in the order it pushes them
Candidates(arb, sandwich, liq) ==
    PushIfSome(PushIfSome(PushIfSome(<<>>, arb), sandwich), liq)

evaluate_opportunity(tx, prices, positions) ==
    LET tx_type == decode_transaction_type(tx)
        arb == detect_arbitrage(tx, tx_type, prices)
        sandwich == detect_sandwich_opportunity(tx, tx_type)
        liq == detect_liquidation_opportunity(positions)
    IN  IF tx_type.kind = "Panic" \/ sandwich.kind = "Panic" THEN OppPanic
        ELSE select_best_opportunity(Candidates(arb, sandwich, liq))

(***************************************************************************)
(* bundler.rs: Result<T>, transaction legs and their encodings.            *)
(***************************************************************************)
Ok(v)    == [ok |-> TRUE, v |-> v, err |-> ""]
Err(msg) == [ok |-> FALSE, v |-> <<>>, err |-> msg]

encode_uniswap_v2_swap(token_in, token_out, amount) ==
    SelV2Swap \o to_big_endian(amount) \o Zeros(128)

encode_uniswap_v3_swap(token_in, token_out, amount) ==
    SelV3Swap \o Zeros(160)

encode_sushiswap_swap(token_in, token_out, amount) ==
    encode_uniswap_v2_swap(token_in, token_out, amount)

\* 0xab9c4b5d
encode_aave_flash_loan(token, amount) == <<171, 156, 75, 93>> \o Zeros(224)

\* 0x00a718a9
encode_aave_liquidation(user, collateral, debt, amount) ==
    <<0, 167, 24, 169>> \o Zeros(160)

\* 0xf5e3c462
encode_compound_liquidation(user, collateral, debt, amount) ==
    <<245, 227, 196, 98>> \o Zeros(96)

\* 0xa9059cbb
encode_flash_loan_repay(token, amount) == SelTransfer \o Zeros(64)

UniswapV2Router == "0x7a250d5630B4cF539739dF2C5dAcb4c659F2488D"
UniswapV3Router == "0xE592427A0AEce92De3Edee1F18E0157C05861564"
SushiSwapRouter == "0xd9e1cE17f2641f24aE83637ab66a2cca9C378B9F"
AavePool        == "0x7d2768dE32b0b80b7a3454c06BdAc94A69DDc7A9"
CompoundComptroller == "0x3d9819210A31b4961b30EF54bE2aeD79B9c9Cd3B"

get_current_block_number == 18500000

\* 20^9 + 5^9
OptimalGasPrice == Add(Pow(U(20), 9), Pow(U(5), 9))
calculate_optimal_gas_price(target_block) == OptimalGasPrice

calculate_optimal_swap_amount(opportunity) ==
    IF opportunity.kind = "Arbitrage"
    THEN DivSmall(opportunity.profit_eth, 10)
    ELSE E18

TransactionRequest(to, data, gas, target_block, value) ==
    [to        |-> to,
     data      |-> data,
     gas       |-> Some(U(gas)),
     gas_price |-> Some(calculate_optimal_gas_price(target_block)),
     value     |-> value]

\* a mutant: an unrecognized venue is routed to the Uniswap V2 router
RouteDexDefaulting(dex, token_in, token_out, amount) ==
    IF dex = "UniswapV3"
    THEN Ok(<<UniswapV3Router, encode_uniswap_v3_swap(token_in, token_out, amount)>>)
    ELSE IF dex = "SushiSwap"
    THEN Ok(<<SushiSwapRouter, encode_sushiswap_swap(token_in, token_out, amount)>>)
    ELSE Ok(<<UniswapV2Router, encode_uniswap_v2_swap(token_in, token_out, amount)>>)

\* a mutant: SushiSwap is not routed
RouteDexUniswapOnly(dex, token_in, token_out, amount) ==
    IF dex = "UniswapV2"
    THEN Ok(<<UniswapV2Router, encode_uniswap_v2_swap(token_in, token_out, amount)>>)
    ELSE IF dex = "UniswapV3"
    THEN Ok(<<UniswapV3Router, encode_uniswap_v3_swap(token_in, token_out, amount)>>)
    ELSE Err("Unsupported DEX")

\* the match on dex of create_dex_swap_transaction
RouteDex(dex, token_in, token_out, amount) ==
    IF dex = "UniswapV2"
    THEN Ok(<<UniswapV2Router, encode_uniswap_v2_swap(token_in, token_out, amount)>>)
    ELSE IF dex = "UniswapV3"
    THEN Ok(<<UniswapV3Router, encode_uniswap_v3_swap(token_in, token_out, amount)>>)
    ELSE IF dex = "SushiSwap"
    THEN Ok(<<SushiSwapRouter, encode_sushiswap_swap(token_in, token_out, amount)>>)
    ELSE Err("Unsupported DEX")

create_dex_swap_transaction(dex, token_in, token_out, amount, target_block) ==
    LET route == RouteDex(dex, token_in, token_out, amount)
    IN  IF ~route.ok THEN route
        ELSE Ok(TransactionRequest(route.v[1], route.v[2], 200000, target_block,
                    IF token_in = AddressZero THEN Some(amount) ELSE NoneU256))

create_frontrun_transaction(token_in, token_out, amount, target_block) ==
    create_dex_swap_transaction("UniswapV2", token_in, token_out, amount,
                                target_block)

create_backrun_transaction(token_in, token_out, amount, target_block) ==
    create_dex_swap_transaction("UniswapV2", token_in, token_out, amount,
                                target_block)

create_flash_loan_transaction(token, amount, target_block) ==
    Ok(TransactionRequest(AavePool, encode_aave_flash_loan(token, amount),
                          300000, target_block, NoneU256))

create_liquidation_transaction(protocol, position_owner, collateral_token, debt_token, debt_amount, target_block) ==
    IF protocol = "Aave"
    THEN Ok(TransactionRequest(AavePool,
                encode_aave_liquidation(position_owner, collateral_token,
                                        debt_token, debt_amount),
                400000, target_block, NoneU256))
    ELSE IF protocol = "Compound"
    THEN Ok(TransactionRequest(CompoundComptroller,
                encode_compound_liquidation(position_owner, collateral_token,
                                            debt_token, debt_amount),
                400000, target_block, NoneU256))
    ELSE Err("Unsupported protocol")

create_flash_loan_repay_transaction(token, amount, target_block) ==
    Ok(TransactionRequest(token, encode_flash_loan_repay(token, amount),
                          100000, target_block, NoneU256))

\* format!("bundle_{}", timestamp): the identifier is the clock's second
generate_bundle_id(now) == now

MEVBundle(transactions, target_block, bundle_id, total_gas, expected_profit) ==
    [transactions    |-> transactions,
     target_block    |-> target_block,
     min_timestamp   |-> NoneU256,
     max_timestamp   |-> NoneU256,
     bundle_id       |-> bundle_id,
     total_gas       |-> U(total_gas),
     expected_profit |-> expected_profit]

(***************************************************************************)
(* bundler.rs: the three bundle builders.  `?` returns the first error.    *)
(***************************************************************************)
create_arbitrage_bundle(opportunity, now) ==
    IF opportunity.kind # "Arbitrage"
    THEN Err("Invalid opportunity type for arbitrage bundle")
    ELSE LET target_block == get_current_block_number + 1
             buy_tx == create_dex_swap_transaction(
                           opportunity.buy_dex, opportunity.token_a,
                           opportunity.token_b,
                           calculate_optimal_swap_amount(opportunity),
                           target_block)
             sell_tx == create_dex_swap_transaction(
                           opportunity.sell_dex, opportunity.token_b,
                           opportunity.token_a,
                           calculate_optimal_swap_amount(opportunity),
                           target_block)
         IN  IF ~buy_tx.ok THEN buy_tx
             ELSE IF ~sell_tx.ok THEN sell_tx
             ELSE Ok(MEVBundle(<<buy_tx.v, sell_tx.v>>, target_block,
                               generate_bundle_id(now), 400000,
                               opportunity.net_profit_eth))

create_sandwich_bundle(opportunity, now) ==
    IF opportunity.kind # "Sandwich"
    THEN Err("Invalid opportunity type for sandwich bundle")
    ELSE LET target_block == get_current_block_number + 1
             frontrun_tx == create_frontrun_transaction(
                                opportunity.token_in, opportunity.token_out,
                                opportunity.frontrun_amount, target_block)
             backrun_tx == create_backrun_transaction(
                                opportunity.token_out, opportunity.token_in,
                                opportunity.backrun_amount, target_block)
         IN  IF ~frontrun_tx.ok THEN frontrun_tx
             ELSE IF ~backrun_tx.ok THEN backrun_tx
             ELSE Ok(MEVBundle(<<frontrun_tx.v, backrun_tx.v>>, target_block,
                               generate_bundle_id(now), 500000,
                               opportunity.estimated_profit_eth))

\* a mutant: the liquidation call is pushed before the flash-loan draw
LiquidationLegsSwapped(flash_loan_tx, liquidation_tx, repay_tx) ==
    <<liquidation_tx, flash_loan_tx, repay_tx>>

\* the order of the three transactions.push calls
LiquidationLegs(flash_loan_tx, liquidation_tx, repay_tx) ==
    <<flash_loan_tx, liquidation_tx, repay_tx>>

create_liquidation_bundle(opportunity, now) ==
    IF opportunity.kind # "Liquidation"
    THEN Err("Invalid opportunity type for liquidation bundle")
    ELSE LET target_block == get_current_block_number + 1
             flash_loan_tx == create_flash_loan_transaction(
                                  opportunity.debt_token,
                                  opportunity.debt_amount, target_block)
             liquidation_tx == create_liquidation_transaction(
                                  opportunity.protocol,
                                  opportunity.position_owner,
                                  opportunity.collateral_token,
                                  opportunity.debt_token,
                                  opportunity.debt_amount, target_block)
             repay_tx == create_flash_loan_repay_transaction(
                                  opportunity.debt_token,
                                  opportunity.debt_amount, target_block)
         IN  IF ~flash_loan_tx.ok THEN flash_loan_tx
             ELSE IF ~liquidation_tx.ok THEN liquidation_tx
             ELSE IF ~repay_tx.ok THEN repay_tx
             ELSE Ok(MEVBundle(LiquidationLegs(flash_loan_tx.v,
                                               liquidation_tx.v, repay_tx.v),
                               target_block, generate_bundle_id(now), 600000,
                               opportunity.liquidation_bonus_eth))

\* the match of create_and_send_bundle on the opportunity's variant
CreateBundle(opportunity, now) ==
    IF opportunity.kind = "Arbitrage"
    THEN create_arbitrage_bundle(opportunity, now)
    ELSE IF opportunity.kind = "Sandwich"
    THEN create_sandwich_bundle(opportunity, now)
    ELSE create_liquidation_bundle(opportunity, now)

RECURSIVE SumGas(_, _)
SumGas(transactions, i) ==
    IF i > Len(transactions) THEN <<>>
    ELSE Add(unwrap_or_default(transactions[i].gas, <<>>),
             SumGas(transactions, i + 1))

\* tx.gas.unwrap_or_default().as_u64() panics when a gas limit does not fit
\* 64 bits
GasLimitsFitU64(transactions) ==
    \A i \in 1..Len(transactions) :
        Lt(unwrap_or_default(transactions[i].gas, <<>>), TwoPow64)

\* a u64 sum without overflow checks wraps at 2^64
RECURSIVE WrapU64(_)
WrapU64(a) == IF Lt(a, TwoPow64) THEN a ELSE WrapU64(Sub(a, TwoPow64))

\* the call does not return
Panicked == [ok |-> FALSE, v |-> <<>>, err |-> "panicked"]

\* Iterator::sum::<u64>() panics on overflow in a build with overflow checks
\* (the dev profile) and wraps in a build without (the release profile)
validate_bundle(bundle, overflow_checks) ==
    IF bundle.transactions = <<>> THEN Err("Bundle cannot be empty")
    ELSE IF bundle.expected_profit = <<>>
    THEN Err("Bundle must have positive expected profit")
    ELSE IF ~GasLimitsFitU64(bundle.transactions) THEN Panicked
    ELSE LET total_gas == SumGas(bundle.transactions, 1)
         IN  IF ~Lt(total_gas, TwoPow64) /\ overflow_checks THEN Panicked
             ELSE IF Gt(WrapU64(total_gas), U(12000000))
             THEN Err("Bundle gas usage exceeds block limit")
             ELSE Ok(<<>>)

(***************************************************************************)
(* bundler.rs: the relay clients.                                          *)
(***************************************************************************)
SubmissionResult(prefix, bundle, relay, probability) ==
    [bundle_hash           |-> <<prefix, bundle.bundle_id>>,
     status                |-> "Submitted",
     relay                 |-> relay,
     block_number          |-> bundle.target_block,
     inclusion_probability |-> probability]

\* inclusion probabilities are in hundredths
submit_to_flashbots(bundle, relay) ==
    Ok(SubmissionResult("fb_", bundle, "flashbots", 85))
submit_to_bloxroute(bundle, relay) ==
    Ok(SubmissionResult("bx_", bundle, "bloXroute", 75))
submit_to_eden(bundle, relay) ==
    Ok(SubmissionResult("eden_", bundle, "eden", 70))

submit_to_relay(bundle, relay) ==
    IF relay.name = "flashbots" THEN submit_to_flashbots(bundle, relay)
    ELSE IF relay.name = "bloXroute" THEN submit_to_bloxroute(bundle, relay)
    ELSE IF relay.name = "eden" THEN submit_to_eden(bundle, relay)
    ELSE Err("Unsupported relay")

RelayConfig(name, signing_key, enabled) ==
    [name |-> name, signing_key |-> signing_key, enabled |-> enabled]

NoneKey == [some |-> FALSE, v |-> ""]

\* std::env::var(..).ok(): the key when the environment holds one
EnvKey(have_keys) == IF have_keys THEN Some("key") ELSE NoneKey

\* the code's relay list, given whether the environment holds the keys
get_relay_configs(have_keys) ==
    << RelayConfig("flashbots", EnvKey(have_keys), TRUE),
       RelayConfig("bloXroute", EnvKey(have_keys), TRUE),
       RelayConfig("eden", EnvKey(have_keys), FALSE) >>

SimulatedResult(bundle) ==
    [bundle_hash           |-> <<"simulated", 0>>,
     status                |-> "Submitted",
     relay                 |-> "simulation",
     block_number          |-> bundle.target_block,
     inclusion_probability |-> 100]

(***************************************************************************)
(* Inputs: the transactions a node can return, the answers of the price    *)
(* and position oracles, and the relay lists.  Each set holds the values   *)
(* the code hard-wires (simulate_dex_prices, get_mock_liquidation_         *)
(* positions, get_relay_configs) next to others of the same type.          *)
(***************************************************************************)
Gwei == Pow(U(10), 9)

V2SwapInput(amount) == encode_uniswap_v2_swap(AddressZero, AddressZero, amount)

Transaction(hash, gas_price, input) ==
    [hash |-> hash, to |-> Some("0xrouter"), gas_price |-> gas_price,
     input |-> input]

\* net profit of the arbitrage on the code's prices
MockArbNet == Sub(Mul(U(3), E18), estimate_arbitrage_gas_cost)
\* net profit of the liquidation of a position with 100 * 10^18 collateral
BigLiqNet == Sub(Mul(U(5), E18), estimate_liquidation_gas_cost)

TxPool ==
    << \* 1: a swap of 2 * 10^18 at 1 gwei: arbitrage and sandwich candidates
       Transaction(1, Some(Gwei), V2SwapInput(Mul(U(2), E18))),
       \* 2: a plain transfer of value, no input
       Transaction(2, Some(Gwei), <<>>),
       \* 3: a gas price of 2^64, which does not fit a u64
       Transaction(3, Some(TwoPow64), V2SwapInput(Mul(U(2), E18))),
       \* 4: a swap of 10^22 without gas price: the sandwich nets 5 * 10^18
       Transaction(4, NoneU256, V2SwapInput(Pow(U(10), 22))),
       \* 5: a swap whose sandwich nets exactly the arbitrage's net profit
       Transaction(5, NoneU256, V2SwapInput(Mul(MockArbNet, U(2000)))),
       \* 6: a swap whose sandwich nets exactly the big liquidation's net
       Transaction(6, NoneU256, V2SwapInput(Mul(BigLiqNet, U(2000)))),
       \* 7: a swap of 5 * 10^17, below the arbitrage threshold
       Transaction(7, Some(Pow(U(10), 8)), V2SwapInput(Mul(U(5), Pow(U(10), 17)))),
       \* 8: an ERC-20 transfer
       Transaction(8, Some(Gwei),
                   SelTransfer \o to_big_endian(U(7)) \o to_big_endian(E18)),
       \* 9: a single-hop swap
       Transaction(9, Some(Gwei), SelV3Swap \o Zeros(160)),
       \* 10: a swap of U256::MAX
       Transaction(10, NoneU256, V2SwapInput(Sub(TwoPow256, U(1)))),
       \* 11: a swap of 10^18 - 1, one unit below the arbitrage threshold
       Transaction(11, NoneU256, V2SwapInput(Sub(E18, U(1)))),
       \* 12: a swap of 10^22 at a gas price of 100 gwei
       Transaction(12, Some(Mul(U(100), Gwei)), V2SwapInput(Pow(U(10), 22))) >>

Price(dex, units) == [dex |-> dex, price |-> Mul(U(units), E18)]

\* a price of so many units, the arbitrage gas-cost estimate being `estimate`
\* of the same units
PriceWithGasAt(dex, units, estimate) ==
    [dex |-> dex,
     price |-> Mul(U(units), DivSmall(estimate_arbitrage_gas_cost, estimate))]

PriceOracles ==
    { simulate_dex_prices,
      \* the cheapest venue is one the builder does not route to
      << Price("UniswapV2", 1000), Price("PancakeSwap", 990),
         Price("SushiSwap", 1002) >>,
      \* one price everywhere
      << Price("UniswapV2", 1000), Price("SushiSwap", 1000),
         Price("UniswapV3", 1000) >>,
      \* the minimum and the maximum are each quoted twice
      << Price("UniswapV2", 999), Price("SushiSwap", 1002),
         Price("UniswapV3", 999), Price("Balancer", 1002) >>,
      \* the spread is exactly the arbitrage gas-cost estimate
      << Price("UniswapV2", 1000),
         [dex |-> "SushiSwap",
          price |-> Add(Mul(U(1000), E18), estimate_arbitrage_gas_cost)] >>,
      \* the spread is the arbitrage gas-cost estimate and one unit more
      << Price("UniswapV2", 1000),
         [dex |-> "SushiSwap",
          price |-> Add(Add(Mul(U(1000), E18), estimate_arbitrage_gas_cost),
                        U(1))] >>,
      \* 1000, 1002 and 999 in units of which the gas-cost estimate is 2
      << PriceWithGasAt("UniswapV2", 1000, 2),
         PriceWithGasAt("SushiSwap", 1002, 2),
         PriceWithGasAt("UniswapV3", 999, 2) >>,
      \* 1000, 1002 and 999 in units of which the gas-cost estimate is 4
      << PriceWithGasAt("UniswapV2", 1000, 4),
         PriceWithGasAt("SushiSwap", 1002, 4),
         PriceWithGasAt("UniswapV3", 999, 4) >>,
      \* no venue answers
      << >> }

Position(protocol, collateral_amount, health_factor) ==
    [protocol          |-> protocol,
     owner             |-> "0x1234567890abcdef",
     collateral_token  |-> "0xa0b86a33",
     debt_token        |-> "0xc02aaa39",
     collateral_amount |-> collateral_amount,
     debt_amount       |-> Mul(U(4), E18),
     health_factor     |-> health_factor]

PositionOracles ==
    { get_mock_liquidation_positions,
      \* a position at health factor 1.00, an unhealthy one whose bonus does
      \* not pay the gas, then two unhealthy ones worth liquidating
      << Position("Aave", Mul(U(1000), E18), 100),
         Position("Compound", E18, 80),
         Position("Aave", Mul(U(100), E18), 90),
         Position("Aave", Mul(U(200), E18), 50) >>,
      \* a protocol the builder does not know
      << Position("MakerDAO", Mul(U(100), E18), 50) >>,
      \* a liquidation that nets exactly the arbitrage's net profit
      << Position("Compound",
                  Mul(Add(MockArbNet, estimate_liquidation_gas_cost), U(20)),
                  99) >>,
      << >> }

MaxRelays == 3
RelayNames == {"flashbots", "mev-x"}

RECURSIVE RelayListsOfLen(_, _)
RelayListsOfLen(n, have_keys) ==
    IF n = 0 THEN { <<>> }
    ELSE { Append(l, RelayConfig(name, EnvKey(have_keys), en)) :
             l \in RelayListsOfLen(n - 1, have_keys),
             name \in RelayNames, en \in BOOLEAN }

RelayLists ==
    UNION { {get_relay_configs(k)}
              \cup UNION { RelayListsOfLen(n, k) : n \in 0..MaxRelays } :
            k \in BOOLEAN }

(***************************************************************************)
(* State.                                                                  *)
(***************************************************************************)
VARIABLES
    max_tx,               \* Args::max_tx
    simulate,             \* Args::simulate
    relays,               \* what get_relay_configs() returns
    dex_prices,           \* what the price oracle returns
    positions,            \* what the position oracle returns
    clock,                \* SystemTime::now(), in seconds
    ctl,                  \* where listen_to_mempool is
    stream_open,          \* the subscription has not terminated
    yielded,              \* feed items the stream has yielded
    count,                \* listen_to_mempool's count
    opportunities_found,  \* listen_to_mempool's opportunities_found
    tasks,                \* the units of work spawned on the JoinSet
    joined,               \* the units join_next has returned
    validated             \* the units whose bundle validate_bundle was run on

vars == << max_tx, simulate, relays, dex_prices, positions, clock, ctl,
           stream_open, yielded, count, opportunities_found, tasks, joined, validated >>

config == << max_tx, simulate, relays, dex_prices, positions >>
loop == << ctl, stream_open, yielded, count, opportunities_found, joined >>

MaxTx == 2
MaxFeed == 3
MaxClock == 1

\* a unit of work: the task spawned for one transaction hash
NewTask(h, pc) ==
    [pc        |-> pc,           \* fetch, analyze, create, submit, done, panicked
     tx_hash   |-> h,
     fetched   |-> "pending",    \* what get_transaction returned
     opp       |-> OppNone,      \* what evaluate_opportunity returned
     build     |-> Err("not built"),
     relay_idx |-> 0,            \* the position of submit_bundle_to_relays
     calls     |-> <<>>,         \* the submit_to_relay calls made, in order
     status    |-> "none",       \* create_and_send_bundle: none, ok or err
     result    |-> Err("none"),  \* what create_and_send_bundle returned
     found     |-> 0]            \* what the task returned

Finished(t) == tasks[t].pc \in {"done", "panicked"}

Set(t, rec) == tasks' = [tasks EXCEPT ![t] = rec]

(***************************************************************************)
(* mempool.rs: listen_to_mempool's control loop.                           *)
(***************************************************************************)
\* the hashes the subscription yields in the pipeline's runs: a swap that
\* carries an opportunity, and a transaction whose logging panics
FeedHashes == {1, 3}

\* stream.next() yields a hash: the unit is spawned and counted, and the
\* loop breaks once count >= max_tx
StreamNext ==
    /\ ctl = "loop"
    /\ yielded < MaxFeed
    /\ \E h \in FeedHashes : tasks' = Append(tasks, NewTask(h, "fetch"))
    /\ yielded' = yielded + 1
    /\ count' = count + 1
    /\ ctl' = IF count + 1 >= max_tx THEN "drain" ELSE "loop"
    /\ UNCHANGED << config, clock, stream_open, opportunities_found, joined,
                    validated >>

\* stream.next() yields None: the subscription has terminated
StreamEnd ==
    /\ ctl = "loop"
    /\ ctl' = "drain"
    /\ stream_open' = FALSE
    /\ UNCHANGED << config, clock, yielded, count, opportunities_found, tasks,
                    joined, validated >>

\* a mutant: the join result is unwrapped, so a unit's panic is propagated
AfterJoinUnwrap(task) == IF task.pc = "panicked" THEN "failed" ELSE "drain"

\* where the drain loop is after join_next returned a unit's result: `if let
\* Ok(found) = res` drops a JoinError and the loop goes on
AfterJoin(task) == "drain"

\* join_set.join_next() returns a finished unit: Ok(found) is added, a
\* JoinError (the unit panicked) is dropped
JoinNext ==
    /\ ctl = "drain"
    /\ \E t \in (1..Len(tasks)) \ joined :
         /\ Finished(t)
         /\ joined' = joined \cup {t}
         /\ opportunities_found' =
                IF tasks[t].pc = "done"
                THEN opportunities_found + tasks[t].found
                ELSE opportunities_found
         /\ ctl' = AfterJoin(tasks[t])
    /\ UNCHANGED << config, clock, stream_open, yielded, count, tasks,
                    validated >>

\* a mutant: the units are detached and the function returns without
\* awaiting them
DrainNothing == TRUE

\* join_next() returns None only once every spawned unit has been returned
DrainComplete == joined = 1..Len(tasks)

\* join_next() returns None: the JoinSet is empty and the function returns Ok
Return ==
    /\ ctl = "drain"
    /\ DrainComplete
    /\ ctl' = "done"
    /\ UNCHANGED << config, clock, stream_open, yielded, count,
                    opportunities_found, tasks, joined, validated >>

(***************************************************************************)
(* mempool.rs: the unit of work.                                           *)
(***************************************************************************)
\* provider.get_transaction(tx_hash) answers Ok(Some(tx)), Ok(None) or Err
Fetch(t) ==
    /\ tasks[t].pc = "fetch"
    /\ \E r \in {"some", "none", "err"} :
         Set(t, [tasks[t] EXCEPT !.fetched = r,
                                 !.pc = IF r = "some" THEN "analyze" ELSE "done"])
    /\ UNCHANGED << config, clock, loop, validated >>

\* gas_price.as_u64() panics when the gas price does not fit 64 bits
log_transaction_panics(tx) ==
    tx.gas_price.some /\ Ge(tx.gas_price.v, TwoPow64)

\* log_transaction and evaluate_opportunity
Analyze(t) ==
    /\ tasks[t].pc = "analyze"
    /\ LET tx == TxPool[tasks[t].tx_hash]
           o == IF log_transaction_panics(tx) THEN OppPanic
                ELSE evaluate_opportunity(tx, dex_prices, positions)
       IN  Set(t, [tasks[t] EXCEPT
                     !.opp = o,
                     !.pc = IF o.kind = "Panic" THEN "panicked"
                            ELSE IF o.kind = "None" THEN "done"
                            ELSE "create"])
    /\ UNCHANGED << config, clock, loop, validated >>

(***************************************************************************)
(* bundler.rs: create_and_send_bundle and submit_bundle_to_relays.         *)
(***************************************************************************)
\* a mutant: the simulate flag is not consulted
AfterBuildAlwaysSubmit(task, b) ==
    IF ~b.ok
    THEN [task EXCEPT !.build = b, !.status = "err", !.result = b,
                      !.pc = "done", !.found = 0]
    ELSE [task EXCEPT !.build = b, !.pc = "submit", !.relay_idx = 1]

\* what create_and_send_bundle does once the bundle is built
AfterBuild(task, b) ==
    IF ~b.ok
    THEN [task EXCEPT !.build = b, !.status = "err", !.result = b,
                      !.pc = "done", !.found = 0]
    ELSE IF simulate
    THEN [task EXCEPT !.build = b, !.status = "ok",
                      !.result = Ok(SimulatedResult(b.v)),
                      !.pc = "done", !.found = 1]
    ELSE [task EXCEPT !.build = b, !.pc = "submit", !.relay_idx = 1]

\* create_and_send_bundle up to the call of submit_bundle_to_relays; the
\* bundle's identifier is the second the clock shows
Build(t) ==
    /\ tasks[t].pc = "create"
    /\ \E now \in clock..MaxClock :
         /\ clock' = now
         /\ Set(t, AfterBuild(tasks[t], CreateBundle(tasks[t].opp, now)))
    /\ UNCHANGED << config, loop, validated >>

\* a mutant: the enabled flag is not consulted
ShouldSkipNever(relay) == FALSE

\* `if !relay.enabled { continue; }`
ShouldSkip(relay) == ~relay.enabled

\* the loop over the relays: a disabled relay is passed over
RelaySkip(t) ==
    /\ tasks[t].pc = "submit"
    /\ tasks[t].relay_idx <= Len(relays)
    /\ ShouldSkip(relays[tasks[t].relay_idx])
    /\ Set(t, [tasks[t] EXCEPT !.relay_idx = @ + 1])
    /\ UNCHANGED << config, clock, loop, validated >>

\* a mutant: the loop does not return on the first success
AfterRelayNoReturn(task, call, r) ==
    IF r.ok
    THEN [task EXCEPT !.calls = Append(@, call), !.status = "ok",
                      !.result = r, !.found = 1, !.relay_idx = @ + 1]
    ELSE [task EXCEPT !.calls = Append(@, call), !.relay_idx = @ + 1]

\* what the loop does with the answer of submit_to_relay
AfterRelay(task, call, r) ==
    IF r.ok
    THEN [task EXCEPT !.calls = Append(@, call), !.status = "ok",
                      !.result = r, !.pc = "done", !.found = 1]
    ELSE [task EXCEPT !.calls = Append(@, call), !.relay_idx = @ + 1]

\* the loop over the relays: submit_to_relay on an enabled relay
RelayCall(t) ==
    /\ tasks[t].pc = "submit"
    /\ tasks[t].relay_idx <= Len(relays)
    /\ ~ShouldSkip(relays[tasks[t].relay_idx])
    /\ LET i == tasks[t].relay_idx
           bundle == tasks[t].build.v
           call == [idx |-> i, name |-> relays[i].name,
                    transactions |-> bundle.transactions]
       IN  Set(t, AfterRelay(tasks[t], call, submit_to_relay(bundle, relays[i])))
    /\ UNCHANGED << config, clock, loop, validated >>

\* the loop over the relays ends: no relay accepted the bundle
RelaysExhausted(t) ==
    /\ tasks[t].pc = "submit"
    /\ tasks[t].relay_idx > Len(relays)
    /\ Set(t, [tasks[t] EXCEPT
                 !.status = "err",
                 !.result = Err("Failed to submit bundle to any relay"),
                 !.pc = "done", !.found = 0])
    /\ UNCHANGED << config, clock, loop, validated >>

(***************************************************************************)
(* Specifications.                                                         *)
(***************************************************************************)
\* the answers of the oracles in the pipeline's runs: the code's own, and
\* prices whose cheapest venue the builder does not route to
PipelinePrices ==
    { simulate_dex_prices,
      << Price("UniswapV2", 1000), Price("PancakeSwap", 990),
         Price("SushiSwap", 1002) >> }

PipelinePositions == { get_mock_liquidation_positions }

\* the pipeline: listen_to_mempool and the units it spawns
Init ==
    /\ max_tx \in 0..MaxTx
    /\ simulate \in BOOLEAN
    /\ relays \in {get_relay_configs(FALSE),
                   << RelayConfig("mev-x", NoneKey, TRUE),
                      RelayConfig("eden", NoneKey, FALSE) >>}
    /\ dex_prices \in PipelinePrices
    /\ positions \in PipelinePositions
    /\ clock = 0
    /\ ctl = "loop"
    /\ stream_open = TRUE
    /\ yielded = 0
    /\ count = 0
    /\ opportunities_found = 0
    /\ tasks = <<>>
    /\ joined = {}
    /\ validated = {}

Next ==
    \/ StreamNext
    \/ StreamEnd
    \/ JoinNext
    \/ Return
    \/ \E t \in 1..Len(tasks) : Fetch(t)
    \/ \E t \in 1..Len(tasks) : Analyze(t)
    \/ \E t \in 1..Len(tasks) : Build(t)
    \/ \E t \in 1..Len(tasks) : RelaySkip(t)
    \/ \E t \in 1..Len(tasks) : RelayCall(t)
    \/ \E t \in 1..Len(tasks) : RelaysExhausted(t)

Spec == Init /\ [][Next]_vars

\* the opportunities the detector yields on the inputs above
Opportunities ==
    { o \in { evaluate_opportunity(TxPool[h], pr, po) :
                h \in DOMAIN TxPool, pr \in PriceOracles, po \in PositionOracles } :
        o.kind \notin {"None", "Panic"} }

\* one call of create_and_send_bundle, on any opportunity and relay list
InitBundle ==
    /\ \E o \in Opportunities : tasks = <<[NewTask(0, "create") EXCEPT !.opp = o]>>
    /\ max_tx = 1
    /\ simulate \in BOOLEAN
    /\ relays \in RelayLists
    /\ dex_prices = simulate_dex_prices
    /\ positions = get_mock_liquidation_positions
    /\ clock = 0
    /\ ctl = "call"
    /\ stream_open = FALSE
    /\ yielded = 0
    /\ count = 0
    /\ opportunities_found = 0
    /\ joined = {}
    /\ validated = {}

NextBundle ==
    \/ Build(1)
    \/ RelaySkip(1)
    \/ RelayCall(1)
    \/ RelaysExhausted(1)

SpecBundle == InitBundle /\ [][NextBundle]_vars

\* one call of evaluate_opportunity, on any transaction and oracle answers
InitDetect ==
    /\ max_tx = 1
    /\ simulate = TRUE
    /\ relays = get_relay_configs(FALSE)
    /\ dex_prices \in PriceOracles
    /\ positions \in PositionOracles
    /\ clock = 0
    /\ ctl = "call"
    /\ stream_open = FALSE
    /\ yielded = 0
    /\ count = 0
    /\ opportunities_found = 0
    /\ \E h \in DOMAIN TxPool :
          tasks = <<[NewTask(h, "analyze") EXCEPT !.fetched = "some"]>>
    /\ joined = {}
    /\ validated = {}

NextDetect == Analyze(1)

SpecDetect == InitDetect /\ [][NextDetect]_vars

(***************************************************************************)
(* One unit of work from the transaction it fetched on: log_transaction,   *)
(* evaluate_opportunity and create_and_send_bundle.                        *)
(***************************************************************************)
InitUnit ==
    /\ max_tx = 1
    /\ simulate \in BOOLEAN
    /\ relays \in {get_relay_configs(FALSE),
                   << RelayConfig("mev-x", NoneKey, TRUE),
                      RelayConfig("eden", NoneKey, FALSE) >>}
    /\ dex_prices \in PriceOracles
    /\ positions \in PositionOracles
    /\ clock = 0
    /\ ctl = "call"
    /\ stream_open = FALSE
    /\ yielded = 0
    /\ count = 0
    /\ opportunities_found = 0
    /\ \E h \in DOMAIN TxPool :
          tasks = <<[NewTask(h, "analyze") EXCEPT !.fetched = "some"]>>
    /\ joined = {}
    /\ validated = {}

NextUnit ==
    \/ Analyze(1)
    \/ Build(1)
    \/ RelaySkip(1)
    \/ RelayCall(1)
    \/ RelaysExhausted(1)

SpecUnit == InitUnit /\ [][NextUnit]_vars

(***************************************************************************)
(* One call of decode_transaction_type, on any input bytes.                *)
(***************************************************************************)
\* the three selectors of the table, 0x00000000, and two selectors that
\* differ from one of the table in the last byte
ClassifySelectors ==
    { SelTransfer, SelV2Swap, SelV3Swap,
      <<0, 0, 0, 0>>, <<169, 5, 156, 188>>, <<65, 75, 243, 138>> }

\* input lengths from the selector alone up to a whole encoded swap, on both
\* sides of the lengths 36 and 68 that the code slices at and tests for, and
\* the 260 bytes of a call with eight argument words
ClassifyLengths == {4, 5, 35, 36, 37, 67, 68, 69, 163, 164, 260}

FillBytes == {0, 1, 255}

Fill(n, b) == [i \in 1..n |-> b]

ClassifyInputs ==
    { SubSeq(sel, 1, k) : sel \in ClassifySelectors, k \in 0..3 }
        \cup { sel \o Fill(n - 4, b) :
                 sel \in ClassifySelectors, n \in ClassifyLengths,
                 b \in FillBytes }

ClassifyTransactions ==
    { [Transaction(0, NoneU256, input) EXCEPT !.to = to] :
        input \in ClassifyInputs, to \in {Some("0xrouter"), NoneAddr} }

InitClassify ==
    /\ max_tx = 1
    /\ simulate = TRUE
    /\ relays = get_relay_configs(FALSE)
    /\ dex_prices = simulate_dex_prices
    /\ positions = get_mock_liquidation_positions
    /\ clock = 0
    /\ ctl = "call"
    /\ stream_open = FALSE
    /\ yielded = 0
    /\ count = 0
    /\ opportunities_found = 0
    /\ \E tx \in ClassifyTransactions :
          tasks = <<[pc |-> "classify", tx |-> tx, tx_type |-> TxUnknown]>>
    /\ joined = {}
    /\ validated = {}

\* decode_transaction_type(tx)
Classify(t) ==
    /\ tasks[t].pc = "classify"
    /\ LET tx_type == decode_transaction_type(tasks[t].tx)
       IN  Set(t, [tasks[t] EXCEPT
                     !.tx_type = tx_type,
                     !.pc = IF tx_type.kind = "Panic" THEN "panicked"
                            ELSE "classified"])
    /\ UNCHANGED << config, clock, loop, validated >>

NextClassify == Classify(1)

SpecClassify == InitClassify /\ [][NextClassify]_vars

(***************************************************************************)
(* One call of submit_bundle_to_relays, the call of submit_to_relay split  *)
(* at its await: the call is made, then the relay answers.  A relay in     *)
(* `silent` never answers.  The clients for the names that submit_to_relay *)
(* knows are the ones that talk to a relay; an unknown name fails at once. *)
(***************************************************************************)
KnownRelays == {"flashbots", "bloXroute", "eden"}

\* the positions of the relays that a client would talk to
Reachable(rs) == { i \in 1..Len(rs) : rs[i].name \in KnownRelays }

InitSubmit ==
    /\ max_tx = 1
    /\ simulate = FALSE
    /\ relays \in RelayLists
    /\ dex_prices = simulate_dex_prices
    /\ positions = get_mock_liquidation_positions
    /\ clock = 0
    /\ ctl = "call"
    /\ stream_open = FALSE
    /\ yielded = 0
    /\ count = 0
    /\ opportunities_found = 0
    /\ \E silent \in SUBSET Reachable(relays) :
          tasks = <<[pc        |-> "submit",
                     tx_hash   |-> 1,
                     fetched   |-> "some",
                     opp       |-> evaluate_opportunity(TxPool[1], dex_prices,
                                                         positions),
                     build     |-> CreateBundle(
                                       evaluate_opportunity(TxPool[1], dex_prices,
                                                            positions), 0),
                     relay_idx |-> 1,
                     calls     |-> <<>>,
                     status    |-> "none",
                     result    |-> Err("none"),
                     found     |-> 0,
                     silent    |-> silent]>>
    /\ joined = {}
    /\ validated = {}

\* submit_to_relay(&bundle, &relay) is called on an enabled relay
SendToRelay(t) ==
    /\ tasks[t].pc = "submit"
    /\ tasks[t].relay_idx <= Len(relays)
    /\ ~ShouldSkip(relays[tasks[t].relay_idx])
    /\ Set(t, [tasks[t] EXCEPT !.pc = "awaiting"])
    /\ UNCHANGED << config, clock, loop, validated >>

\* .await: the relay answers and the loop goes on with the answer
RelayAnswers(t) ==
    /\ tasks[t].pc = "awaiting"
    /\ tasks[t].relay_idx \notin tasks[t].silent
    /\ LET i == tasks[t].relay_idx
           bundle == tasks[t].build.v
           call == [idx |-> i, name |-> relays[i].name,
                    transactions |-> bundle.transactions]
       IN  Set(t, AfterRelay([tasks[t] EXCEPT !.pc = "submit"], call,
                             submit_to_relay(bundle, relays[i])))
    /\ UNCHANGED << config, clock, loop, validated >>

NextSubmit ==
    \/ RelaySkip(1)
    \/ SendToRelay(1)
    \/ RelayAnswers(1)
    \/ RelaysExhausted(1)

\* the runtime keeps polling a task that can go on
SpecSubmit == InitSubmit /\ [][NextSubmit]_vars /\ WF_vars(NextSubmit)

(***************************************************************************)
(* One call of validate_bundle, on any bundle.                             *)
(***************************************************************************)
\* gas limits: absent, small, around half the ceiling and the ceiling of
\* 12,000,000, and around the 64 bits that as_u64 and the u64 sum hold
ValidateGas ==
    { NoneU256, Some(U(1)), Some(U(6000000)), Some(U(6000001)),
      Some(U(12000000)), Some(U(12000001)),
      Some(DivSmall(TwoPow64, 2)), Some(Sub(TwoPow64, U(1))), Some(TwoPow64) }

ValidateLeg(gas) ==
    [TransactionRequest(UniswapV2Router, <<>>, 0, get_current_block_number + 1,
                        <<>>) EXCEPT !.gas = gas]

\* the leg lists of up to two legs
ValidateLegs ==
    { <<>> } \cup { <<ValidateLeg(g)>> : g \in ValidateGas }
             \cup { <<ValidateLeg(g), ValidateLeg(h)>> :
                      g \in ValidateGas, h \in ValidateGas }

ValidateBundles ==
    { MEVBundle(legs, get_current_block_number + 1, generate_bundle_id(0), 0,
                profit) :
        legs \in ValidateLegs, profit \in { <<>>, U(1), E18 } }

InitValidate ==
    /\ max_tx = 1
    /\ simulate = TRUE
    /\ relays = get_relay_configs(FALSE)
    /\ dex_prices = simulate_dex_prices
    /\ positions = get_mock_liquidation_positions
    /\ clock = 0
    /\ ctl = "call"
    /\ stream_open = FALSE
    /\ yielded = 0
    /\ count = 0
    /\ opportunities_found = 0
    /\ \E b \in ValidateBundles :
          tasks = <<[pc |-> "validate", given |-> b, bundle |-> b,
                     result |-> Err("none")]>>
    /\ joined = {}
    /\ validated = {}

\* validate_bundle(&bundle): the bundle is borrowed immutably
Validate(t) ==
    /\ tasks[t].pc = "validate"
    /\ \E overflow_checks \in BOOLEAN :
          LET r == validate_bundle(tasks[t].bundle, overflow_checks)
          IN  Set(t, [tasks[t] EXCEPT
                        !.result = r,
                        !.pc = IF r = Panicked THEN "panicked" ELSE "returned"])
    /\ validated' = validated \cup {t}
    /\ UNCHANGED << config, clock, loop >>

NextValidate == Validate(1)

SpecValidate == InitValidate /\ [][NextValidate]_vars

(***************************************************************************)
(* Properties.                                                             *)
(***************************************************************************)
Tasks == 1..Len(tasks)

\* the units for which submit_bundle_to_relays has been entered
Submitting(t) == tasks[t].build.ok /\ tasks[t].relay_idx >= 1

\* whether the relay client of relays[i] accepts the unit's bundle
Accepts(t, i) == submit_to_relay(tasks[t].build.v, relays[i]).ok

\* the positions of the enabled relays below position n, in list order
RECURSIVE EnabledBelow(_)
EnabledBelow(n) ==
    IF n <= 1 THEN <<>>
    ELSE IF relays[n - 1].enabled
    THEN Append(EnabledBelow(n - 1), n - 1)
    ELSE EnabledBelow(n - 1)

CallIdx(t) == [j \in 1..Len(tasks[t].calls) |-> tasks[t].calls[j].idx]

\* C1: submit_bundle_to_relays calls the enabled relays in list order, each
\* at most once, and stops at the first relay that accepts: every call but the
\* last was refused, and once the function has returned Ok the last call is
\* the accepted one, its outcome is what is returned, and no relay after it
\* has been called.
C1_FirstSuccessShortCircuits ==
    \A t \in Tasks :
        Submitting(t) =>
            LET calls == tasks[t].calls
                n == Len(calls)
                reached == IF tasks[t].pc = "done" /\ tasks[t].status = "ok"
                           THEN calls[n].idx + 1
                           ELSE tasks[t].relay_idx
            IN  /\ CallIdx(t) = EnabledBelow(reached)
                /\ \A j \in 1..(n - 1) : ~Accepts(t, calls[j].idx)
                /\ tasks[t].status = "ok" =>
                      /\ tasks[t].pc = "done"
                      /\ n >= 1
                      /\ Accepts(t, calls[n].idx)
                      /\ tasks[t].result =
                            submit_to_relay(tasks[t].build.v, relays[calls[n].idx])
                      /\ tasks[t].result.v.relay = calls[n].name
                /\ tasks[t].status # "ok" => \A j \in 1..n : ~Accepts(t, calls[j].idx)

\* C1's case: the first relay refused, the second accepted, and a third,
\* enabled relay was never called
C1_Witness ==
    \E t \in Tasks :
        /\ tasks[t].pc = "done"
        /\ tasks[t].status = "ok"
        /\ Len(relays) = 3
        /\ \A i \in 1..3 : relays[i].enabled
        /\ CallIdx(t) = <<1, 2>>
        /\ ~Accepts(t, 1)
        /\ tasks[t].result.v.relay = relays[2].name

\* C2: submit_bundle_to_relays fails iff no enabled relay accepted the
\* bundle, and then with the aggregate error; only enabled relays are ever
\* called, so with every relay disabled it fails without a single call.
C2_FailsIffNoEnabledRelayAccepts ==
    \A t \in Tasks :
        Submitting(t) =>
            /\ \A j \in 1..Len(tasks[t].calls) :
                   relays[tasks[t].calls[j].idx].enabled
            /\ tasks[t].pc = "done" =>
                  /\ tasks[t].status = "err"
                        <=> \A i \in 1..Len(relays) :
                                relays[i].enabled => ~Accepts(t, i)
                  /\ tasks[t].status = "err" =>
                        /\ ~tasks[t].result.ok
                        /\ tasks[t].result.err =
                               "Failed to submit bundle to any relay"
                  /\ (\A i \in 1..Len(relays) : ~relays[i].enabled) =>
                        /\ tasks[t].status = "err"
                        /\ tasks[t].calls = <<>>

\* C2's case: a list of three relays, all disabled, and the function failed
\* without a call
C2_Witness ==
    \E t \in Tasks :
        /\ Submitting(t)
        /\ tasks[t].pc = "done"
        /\ Len(relays) = 3
        /\ \A i \in 1..3 : ~relays[i].enabled
        /\ tasks[t].status = "err"
        /\ tasks[t].calls = <<>>

\* C3: in the build-then-submit path no relay is called for a bundle unless
\* validate_bundle has been run on that bundle and has passed.
C3_ValidatedBeforeSubmission ==
    \A t \in Tasks :
        tasks[t].calls # <<>> =>
            /\ t \in validated
            /\ \A overflow_checks \in BOOLEAN :
                  validate_bundle(tasks[t].build.v, overflow_checks).ok

\* C4: listen_to_mempool has not returned while a unit it dispatched is
\* still running: at the return every unit has completed or panicked, and
\* every one of them has been joined.
C4_DrainBeforeReturn ==
    ctl = "done" =>
        /\ \A t \in Tasks : Finished(t)
        /\ joined = Tasks

\* C4's case: the function returned after two units, one of which went as far
\* as calling a relay
C4_Witness ==
    /\ ctl = "done"
    /\ Len(tasks) >= 2
    /\ \E t \in Tasks : tasks[t].calls # <<>>
    /\ \E t \in Tasks : tasks[t].fetched = "none"

\* C5: the number of units listen_to_mempool has dispatched never exceeds
\* max_tx, whatever max_tx >= 0 and whatever the feed.
C5_DispatchedAtMostMaxTx ==
    /\ Len(tasks) <= max_tx
    /\ count <= max_tx

\* whether a unit's task panics and what the builder makes of the
\* opportunity the detector returns, from the unit's own transaction and the
\* oracles' answers alone
UnitOutcome(t) ==
    LET tx == TxPool[tasks[t].tx_hash]
        o == IF log_transaction_panics(tx) THEN OppPanic
             ELSE evaluate_opportunity(tx, dex_prices, positions)
    IN  [panics |-> o.kind = "Panic",
         bundle |-> IF o.kind \in {"None", "Panic"}
                    THEN Err("no opportunity")
                    ELSE CreateBundle(o, 0)]

\* what a unit whose transaction was fetched returns
UnitFound(u) ==
    IF ~u.bundle.ok THEN 0
    ELSE IF simulate THEN 1
    ELSE IF \E i \in 1..Len(relays) :
               relays[i].enabled /\ submit_to_relay(u.bundle.v, relays[i]).ok
    THEN 1
    ELSE 0

\* a finished unit panicked iff its own transaction makes the task panic,
\* and otherwise returned the count its own transaction gives
UnitResultIsItsOwn(t) ==
    IF tasks[t].fetched # "some"
    THEN tasks[t].pc = "done" /\ tasks[t].found = 0
    ELSE LET u == UnitOutcome(t)
         IN  IF u.panics THEN tasks[t].pc = "panicked"
             ELSE tasks[t].pc = "done" /\ tasks[t].found = UnitFound(u)

RECURSIVE SumFound(_)
SumFound(S) ==
    IF S = {} THEN 0
    ELSE LET t == CHOOSE x \in S : TRUE
         IN  (IF tasks[t].pc = "done" THEN tasks[t].found ELSE 0)
                 + SumFound(S \ {t})

SupportedDex == {"UniswapV2", "UniswapV3", "SushiSwap"}
SupportedProtocol == {"Aave", "Compound"}

\* C7: once build has run on an arbitrage routed to a venue other than
\* UniswapV2, UniswapV3, SushiSwap, or on a liquidation of a protocol other
\* than Aave, Compound, create_and_send_bundle has failed with the venue's or
\* the protocol's error, and no relay has been called; no relay is called
\* for any bundle whose build failed.
C7_UnsupportedRouteFails ==
    \A t \in Tasks :
        /\ ~tasks[t].build.ok => tasks[t].calls = <<>> /\ tasks[t].relay_idx = 0
        /\ (/\ tasks[t].pc \notin {"fetch", "analyze", "create"}
            /\ tasks[t].opp.kind = "Arbitrage"
            /\ \/ tasks[t].opp.buy_dex \notin SupportedDex
               \/ tasks[t].opp.sell_dex \notin SupportedDex) =>
                /\ tasks[t].pc = "done"
                /\ tasks[t].status = "err"
                /\ tasks[t].result = Err("Unsupported DEX")
                /\ tasks[t].calls = <<>>
        /\ (/\ tasks[t].pc \notin {"fetch", "analyze", "create"}
            /\ tasks[t].opp.kind = "Liquidation"
            /\ tasks[t].opp.protocol \notin SupportedProtocol) =>
                /\ tasks[t].pc = "done"
                /\ tasks[t].status = "err"
                /\ tasks[t].result = Err("Unsupported protocol")
                /\ tasks[t].calls = <<>>

\* C7's case: outside simulate mode and with an enabled relay, an arbitrage
\* that sells on an unrecognized venue has failed without a relay call
C7_Witness ==
    \E t \in Tasks :
        /\ ~simulate
        /\ \E i \in 1..Len(relays) : relays[i].enabled
        /\ tasks[t].opp.kind = "Arbitrage"
        /\ tasks[t].opp.buy_dex \in SupportedDex
        /\ tasks[t].opp.sell_dex \notin SupportedDex
        /\ tasks[t].pc = "done"
        /\ tasks[t].status = "err"
        /\ tasks[t].calls = <<>>

\* C8: in simulate mode create_and_send_bundle never enters
\* submit_bundle_to_relays and calls no relay; it builds the bundle and
\* succeeds exactly when the build succeeds, whatever the relay list and its
\* credentials, returning the would-be result for the bundle's target block.
C8_SimulateNeverSubmits ==
    simulate =>
        \A t \in Tasks :
            /\ tasks[t].calls = <<>>
            /\ tasks[t].pc # "submit"
            /\ tasks[t].relay_idx = 0
            /\ (tasks[t].pc = "done" /\ tasks[t].status # "none") =>
                  /\ tasks[t].build.ok <=> CreateBundle(tasks[t].opp, 0).ok
                  /\ tasks[t].status = "ok" <=> tasks[t].build.ok
                  /\ tasks[t].result.ok <=> tasks[t].build.ok
                  /\ tasks[t].build.ok =>
                        /\ tasks[t].result.v.relay = "simulation"
                        /\ tasks[t].result.v.block_number =
                               tasks[t].build.v.target_block

\* C8's case: simulate mode, relays enabled and none with a signing key, and
\* the call returned the would-be result
C8_Witness ==
    \E t \in Tasks :
        /\ simulate
        /\ relays # <<>>
        /\ \A i \in 1..Len(relays) :
               relays[i].enabled /\ ~relays[i].signing_key.some
        /\ tasks[t].pc = "done"
        /\ tasks[t].status = "ok"
        /\ Len(tasks[t].build.v.transactions) = 2
        /\ tasks[t].calls = <<>>

\* the router a recognized venue is reached at
RouterOf(dex) ==
    CASE dex = "UniswapV2" -> UniswapV2Router
      [] dex = "UniswapV3" -> UniswapV3Router
      [] dex = "SushiSwap" -> SushiSwapRouter

Selector(leg) == SubSeq(leg.data, 1, 4)

\* the amount a Uniswap V2 swap leg carries
LegAmount(leg) == decode_v2_amount(leg.data)

\* C9: a built arbitrage bundle has exactly 2 legs, the buy on buy_dex and
\* then the sell on sell_dex; a sandwich bundle exactly 2 legs, the frontrun
\* and then the backrun, neither of them the victim's transaction; a
\* liquidation bundle exactly 3 legs, the flash-loan draw, the liquidation
\* call and the flash-loan repayment in this order; and every relay is
\* handed the legs as they were built.
C9_LegCountsAndOrder ==
    \A t \in Tasks :
        tasks[t].build.ok =>
            LET o == tasks[t].opp
                legs == tasks[t].build.v.transactions
            IN  /\ o.kind = "Arbitrage" =>
                      /\ Len(legs) = 2
                      /\ legs[1].to = RouterOf(o.buy_dex)
                      /\ legs[2].to = RouterOf(o.sell_dex)
                      /\ legs[1] = create_dex_swap_transaction(
                                       o.buy_dex, o.token_a, o.token_b,
                                       calculate_optimal_swap_amount(o),
                                       tasks[t].build.v.target_block).v
                      /\ legs[2] = create_dex_swap_transaction(
                                       o.sell_dex, o.token_b, o.token_a,
                                       calculate_optimal_swap_amount(o),
                                       tasks[t].build.v.target_block).v
                /\ o.kind = "Sandwich" =>
                      /\ Len(legs) = 2
                      /\ \A i \in 1..2 :
                            /\ legs[i].to = UniswapV2Router
                            /\ Selector(legs[i]) = SelV2Swap
                            /\ legs[i].data # TxPool[o.victim_tx_hash].input
                      /\ LegAmount(legs[1]) = o.frontrun_amount
                      /\ LegAmount(legs[2]) = o.backrun_amount
                /\ o.kind = "Liquidation" =>
                      /\ Len(legs) = 3
                      /\ legs[1].to = AavePool
                      /\ Selector(legs[1]) = <<171, 156, 75, 93>>
                      /\ legs[2].to = IF o.protocol = "Aave" THEN AavePool
                                      ELSE CompoundComptroller
                      /\ Selector(legs[2]) = IF o.protocol = "Aave"
                                             THEN <<0, 167, 24, 169>>
                                             ELSE <<245, 227, 196, 98>>
                      /\ legs[3].to = o.debt_token
                      /\ Selector(legs[3]) = SelTransfer
                /\ \A j \in 1..Len(tasks[t].calls) :
                      tasks[t].calls[j].transactions = legs

\* C9's case: a liquidation bundle of three legs has been handed to two
\* relays, the first of which refused it
C9_Witness ==
    \E t \in Tasks :
        /\ tasks[t].opp.kind = "Liquidation"
        /\ tasks[t].build.ok
        /\ Len(tasks[t].build.v.transactions) = 3
        /\ Len(tasks[t].calls) = 2
        /\ tasks[t].pc = "done"
        /\ tasks[t].status = "ok"

\* profit minus the strategy's gas-cost estimate
ClaimNet(o) ==
    CASE o.kind = "Arbitrage" -> Sub(o.profit_eth, estimate_arbitrage_gas_cost)
      [] o.kind = "Sandwich" -> Sub(o.estimated_profit_eth, o.gas_cost_eth)
      [] o.kind = "Liquidation" ->
             Sub(o.liquidation_bonus_eth, estimate_liquidation_gas_cost)

\* the candidates of the unit's transaction, in declaration order
UnitCandidates(t) ==
    LET tx == TxPool[tasks[t].tx_hash]
        tx_type == decode_transaction_type(tx)
    IN  Candidates(detect_arbitrage(tx, tx_type, dex_prices),
                   detect_sandwich_opportunity(tx, tx_type),
                   detect_liquidation_opportunity(positions))

\* C10: evaluate_opportunity returns None iff no strategy yields a
\* candidate; otherwise it returns a candidate whose net profit no other
\* candidate exceeds, and every candidate declared before it (arbitrage,
\* sandwich, liquidation) has a strictly smaller net profit.
C10_GreatestNetProfitFirstDeclared ==
    \A t \in Tasks :
        tasks[t].pc \in {"create", "submit", "done"} /\ tasks[t].fetched = "some" =>
            LET cands == UnitCandidates(t)
                o == tasks[t].opp
            IN  /\ o.kind = "None" <=> cands = <<>>
                /\ o.kind # "None" =>
                      \E i \in 1..Len(cands) :
                          /\ cands[i] = o
                          /\ \A j \in 1..Len(cands) :
                                 Le(ClaimNet(cands[j]), ClaimNet(o))
                          /\ \A j \in 1..(i - 1) :
                                 Lt(ClaimNet(cands[j]), ClaimNet(o))

\* C10's case: three candidates, the sandwich and the liquidation with the
\* same net profit above the arbitrage's, and the sandwich was returned
C10_Witness ==
    \E t \in Tasks :
        /\ tasks[t].pc = "create"
        /\ LET cands == UnitCandidates(t)
           IN  /\ Len(cands) = 3
               /\ ClaimNet(cands[2]) = ClaimNet(cands[3])
               /\ Lt(ClaimNet(cands[1]), ClaimNet(cands[2]))
               /\ tasks[t].opp = cands[2]

\* the units whose call of evaluate_opportunity has returned
Analyzed(t) == tasks[t].fetched = "some" /\ tasks[t].pc \in {"create", "submit", "done"}

\* what each strategy yields on the unit's transaction and the oracles' answers
UnitTx(t) == TxPool[tasks[t].tx_hash]
UnitType(t) == decode_transaction_type(UnitTx(t))
UnitArbitrage(t) == detect_arbitrage(UnitTx(t), UnitType(t), dex_prices)
UnitSandwich(t) == detect_sandwich_opportunity(UnitTx(t), UnitType(t))
UnitLiquidation(t) == detect_liquidation_opportunity(positions)

\* C11: the arbitrage strategy buys on a venue whose price no venue
\* undercuts and sells on a venue whose price no venue exceeds, its gross
\* profit being the difference of the two; when the lowest price equals the
\* highest it yields nothing.
C11_BuyAtMinSellAtMax ==
    \A t \in Tasks :
        Analyzed(t) =>
            LET arb == UnitArbitrage(t)
                V == 1..Len(dex_prices)
            IN  /\ arb.kind = "Arbitrage" =>
                      \E i \in V, j \in V :
                          /\ dex_prices[i].dex = arb.buy_dex
                          /\ dex_prices[j].dex = arb.sell_dex
                          /\ \A k \in V :
                                /\ Le(dex_prices[i].price, dex_prices[k].price)
                                /\ Ge(dex_prices[j].price, dex_prices[k].price)
                          /\ arb.profit_eth =
                                 Sub(dex_prices[j].price, dex_prices[i].price)
                /\ (\A i \in V, j \in V :
                        dex_prices[i].price = dex_prices[j].price) =>
                      arb.kind = "None"

\* C11's case: four venues, the lowest and the highest price each quoted
\* twice, and the strategy yielded an arbitrage between two of them
C11_Witness ==
    \E t \in Tasks :
        /\ Analyzed(t)
        /\ Len(dex_prices) = 4
        /\ UnitArbitrage(t).kind = "Arbitrage"
        /\ UnitArbitrage(t).buy_dex # UnitArbitrage(t).sell_dex

\* the lowest and the highest of a non-empty list of prices
LowestPrice(prices) ==
    prices[CHOOSE i \in 1..Len(prices) :
               \A k \in 1..Len(prices) : Le(prices[i].price, prices[k].price)].price
HighestPrice(prices) ==
    prices[CHOOSE i \in 1..Len(prices) :
               \A k \in 1..Len(prices) : Ge(prices[i].price, prices[k].price)].price

\* 300000 * 20^9, the value of U256::from(300_000) * U256::from(20).pow(9)
ArbitrageGasEstimate == Mul(U(300000), Pow(U(20), 9))

\* a price of so many units, ArbitrageGasEstimate being `estimate` of them
PriceAtEstimate(dex, units, estimate) ==
    [dex |-> dex, price |-> Mul(U(units), DivSmall(ArbitrageGasEstimate, estimate))]

\* the units on whose swap the arbitrage strategy compares prices
ArbitragePriced(t) ==
    /\ Analyzed(t)
    /\ IsSwap(UnitType(t))
    /\ Ge(UnitType(t).amount_in, E18)
    /\ dex_prices # <<>>

C13_NoArbitrageBelowMinimum ==
    \A t \in Tasks :
        (Analyzed(t) /\ (~IsSwap(UnitType(t)) \/ Lt(UnitType(t).amount_in, E18)))
            => UnitArbitrage(t).kind = "None"

\* C13's case: a swap one unit below 10^18, on prices whose spread pays the
\* gas, has been analyzed
C13_Witness ==
    \E t \in Tasks :
        /\ Analyzed(t)
        /\ UnitType(t).kind = "UniswapV2Swap"
        /\ UnitType(t).amount_in = Sub(E18, U(1))
        /\ dex_prices # <<>>
        /\ Gt(Sub(HighestPrice(dex_prices), LowestPrice(dex_prices)),
              ArbitrageGasEstimate)
        /\ UnitArbitrage(t).kind = "None"

\* C14: every sandwich yielded has frontrun_amount = amount_in / 10 under
\* floor division and backrun_amount exactly 1.05 times the frontrun amount,
\* backrun_amount * 100 = frontrun_amount * 105.
C14_BackrunExactly105Percent ==
    \A t \in Tasks :
        (Analyzed(t) /\ UnitSandwich(t).kind = "Sandwich") =>
            LET s == UnitSandwich(t)
            IN  /\ s.frontrun_amount = DivSmall(UnitType(t).amount_in, 10)
                /\ Mul(s.backrun_amount, U(100)) = Mul(s.frontrun_amount, U(105))

\* C15: a swap whose amount_in is below 5 * 10^18 yields no sandwich, whatever
\* the gas price of the victim.
C15_NoSandwichBelowFiveUnits ==
    \A t \in Tasks :
        (Analyzed(t) /\ IsSwap(UnitType(t))
                     /\ Lt(UnitType(t).amount_in, Mul(U(5), E18)))
            => UnitSandwich(t).kind = "None"

\* C16: a victim whose gas price is above 50 gwei, 50 * 10^9 wei, yields no
\* sandwich, whatever its amount_in.
C16_NoSandwichAboveFiftyGwei ==
    \A t \in Tasks :
        (Analyzed(t) /\ Gt(unwrap_or_default(UnitTx(t).gas_price, <<>>),
                           Mul(U(50), Gwei)))
            => UnitSandwich(t).kind = "None"

\* 500000 * 25^9, the value of U256::from(500_000) * U256::from(25).pow(9)
LiquidationGasEstimate == Mul(U(500000), Pow(U(25), 9))

\* health factor below 1.0 (in hundredths) and a bonus of a twentieth of the
\* collateral strictly above the liquidation gas-cost estimate
WorthLiquidating(position) ==
    /\ position.health_factor < 100
    /\ Gt(DivSmall(position.collateral_amount, 20), LiquidationGasEstimate)

\* the liquidation opportunity carries position i of the oracle's answer
Carries(liq, i) ==
    /\ liq.protocol = positions[i].protocol
    /\ liq.position_owner = positions[i].owner
    /\ liq.collateral_amount = positions[i].collateral_amount
    /\ liq.debt_amount = positions[i].debt_amount
    /\ liq.health_factor = positions[i].health_factor
    /\ liq.liquidation_bonus_eth = DivSmall(positions[i].collateral_amount, 20)

Classified(t) == tasks[t].pc \in {"classified", "panicked"}

TxTypes == {"ERC20Transfer", "UniswapV2Swap", "UniswapV3Swap", "Unknown"}

\* C19: decode_transaction_type returns a TxType for every input, it never
\* panics, and for an input shorter than 4 bytes it returns Unknown.
C19_ClassificationTotal ==
    \A t \in Tasks :
        Classified(t) =>
            /\ tasks[t].pc = "classified"
            /\ tasks[t].tx_type.kind \in TxTypes
            /\ Len(tasks[t].tx.input) < 4 => tasks[t].tx_type = TxUnknown

\* C19's case: the first three bytes of the transfer selector, and nothing
\* more, have been classified
C19_Witness ==
    \E t \in Tasks :
        /\ Classified(t)
        /\ tasks[t].tx.input = <<169, 5, 156>>
        /\ tasks[t].tx_type = TxUnknown

\* the bytes a call of the selector must hold after the selector for the
\* code to decode it: the 64 the code tests for on a transfer and on a
\* v2-style swap, and on the single-hop swap, where the code tests nothing,
\* one 32-byte word, the least an argument takes
FixedArgsBytes(selector) ==
    IF selector = SelV3Swap THEN 32 ELSE 64

\* C20: on an input of at least 4 bytes decode_transaction_type returns
\* Unknown when the selector is none of the three of the table, and when it
\* is one of them and the input is too short to hold the fixed-size
\* arguments of the call.
C20_UnknownSelectorOrShortInput ==
    \A t \in Tasks :
        (Classified(t) /\ Len(tasks[t].tx.input) >= 4) =>
            LET input == tasks[t].tx.input
                selector == SubSeq(input, 1, 4)
            IN  /\ selector \notin {SelTransfer, SelV2Swap, SelV3Swap}
                      => tasks[t].tx_type = TxUnknown
                /\ (/\ selector \in {SelTransfer, SelV2Swap, SelV3Swap}
                    /\ Len(input) < 4 + FixedArgsBytes(selector))
                      => tasks[t].tx_type = TxUnknown

\* the 32-byte argument words an input holds whole, numbered from 0
ArgWords(input) == 0..(((Len(input) - 4) \div 32) - 1)

\* the big-endian integer in argument word k of the input
ArgWord(input, k) == from_big_endian(SubSeq(input, 5 + 32 * k, 36 + 32 * k))

\* C21: the amount of a Transfer is the integer in the second argument word
\* of the input, the amount_in of a v2-style swap the integer in the first,
\* and the amount_in of a single-hop swap the integer in one of the argument
\* words of the input; it is never a placeholder.
C21_AmountDecodedFromItsSlot ==
    \A t \in Tasks :
        Classified(t) =>
            LET input == tasks[t].tx.input
                ty == tasks[t].tx_type
            IN  /\ ty.kind = "ERC20Transfer" => ty.amount = ArgWord(input, 1)
                /\ ty.kind = "UniswapV2Swap" => ty.amount_in = ArgWord(input, 0)
                /\ (ty.kind = "UniswapV3Swap" /\ ArgWords(input) # {}) =>
                      \E k \in ArgWords(input) : ty.amount_in = ArgWord(input, k)

\* the sum of the gas limits of the legs, an absent limit counting 0
RECURSIVE LegGasSum(_)
LegGasSum(legs) ==
    IF legs = <<>> THEN <<>>
    ELSE Add(IF Head(legs).gas.some THEN Head(legs).gas.v ELSE <<>>,
             LegGasSum(Tail(legs)))

\* C22: validate_bundle returns, with an error iff the bundle has no leg, or
\* its expected profit is zero, or the sum of its legs' gas limits exceeds
\* 12,000,000, and with Ok otherwise; the bundle is left as it was.
C22_ValidateErrorsIffInvalid ==
    \A t \in Tasks :
        (t \in validated) =>
            LET b == tasks[t].given
                invalid == \/ b.transactions = <<>>
                           \/ b.expected_profit = <<>>
                           \/ Gt(LegGasSum(b.transactions), U(12000000))
            IN  /\ tasks[t].pc = "returned"
                /\ ~tasks[t].result.ok <=> invalid
                /\ ~invalid => tasks[t].result = Ok(<<>>)
                /\ tasks[t].bundle = b

Running(t) == tasks[t].pc \in {"fetch", "analyze", "create", "submit"}

\* listen_to_mempool or one of its units has a step to take that waits for
\* nothing from the feed: a unit is running, or the drain loop can join a
\* finished unit or return
CanGoOn ==
    \/ \E t \in Tasks : Running(t)
    \/ /\ ctl = "drain"
       /\ \/ \E t \in Tasks \ joined : Finished(t)
          \/ joined = Tasks

\* C24: once max_tx feed items have been dispatched, or the feed has
\* terminated, listen_to_mempool has returned or goes on towards its return
\* by steps of its own and of its units, which are finitely many: it waits
\* for no further feed item.
C24_ReturnsAfterMaxTxOrFeedEnd ==
    (count >= max_tx \/ ~stream_open) => (ctl = "done" \/ CanGoOn)

\* the units dispatched in which evaluate_opportunity returned an opportunity
Detected == { t \in Tasks : tasks[t].opp.kind \notin {"None", "Panic"} }

FirstAt(prices, price) ==
    prices[CHOOSE i \in 1..Len(prices) :
               /\ prices[i].price = price
               /\ \A k \in 1..(i - 1) : prices[k].price # price].dex

C27_BundleIdsUnique ==
    \A t \in Tasks, u \in Tasks :
        (t # u /\ tasks[t].build.ok /\ tasks[u].build.ok) =>
            tasks[t].build.v.bundle_id # tasks[u].build.v.bundle_id

\* the oracles answer what the code's own answer: evaluate_opportunity takes
\* no oracle as a parameter, it calls simulate_dex_prices and
\* get_mock_liquidation_positions
CodeOracles ==
    /\ dex_prices = simulate_dex_prices
    /\ positions = get_mock_liquidation_positions

\* the units in which evaluate_opportunity returned an opportunity and
\* create_and_send_bundle has built, or failed to build, its bundle
Built(t) ==
    /\ tasks[t].fetched = "some"
    /\ tasks[t].opp.kind \notin {"None", "Panic"}
    /\ tasks[t].pc \in {"submit", "done"}

\* C28: the bundle built from an opportunity that evaluate_opportunity
\* returned is built without an unsupported venue or protocol error, has at
\* least one leg, an expected profit above zero and legs whose gas limits sum
\* to 12,000,000 at most: it passes validate_bundle.
C28_PipelineBundlesAreValid ==
    \A t \in Tasks :
        (CodeOracles /\ Built(t)) =>
            /\ tasks[t].build.ok
            /\ Len(tasks[t].build.v.transactions) >= 1
            /\ Gt(tasks[t].build.v.expected_profit, <<>>)
            /\ Le(LegGasSum(tasks[t].build.v.transactions), U(12000000))
            /\ \A overflow_checks \in BOOLEAN :
                  validate_bundle(tasks[t].build.v, overflow_checks) = Ok(<<>>)

\* C28's case: the bundle of a sandwich that evaluate_opportunity returned is
\* at the first relay of submit_bundle_to_relays
C28_Witness ==
    \E t \in Tasks :
        /\ CodeOracles
        /\ Built(t)
        /\ ~simulate
        /\ tasks[t].opp.kind = "Sandwich"
        /\ tasks[t].pc = "submit"
        /\ tasks[t].relay_idx = 1
        /\ Len(tasks[t].build.v.transactions) = 2

\* C29: the total_gas field of a bundle the builder produced equals the sum
\* of the gas limits of its legs.
C29_TotalGasIsSumOfLegs ==
    \A t \in Tasks :
        (Built(t) /\ tasks[t].build.ok) =>
            tasks[t].build.v.total_gas = LegGasSum(tasks[t].build.v.transactions)

\* C30: whatever the amount_in and the gas price of the transaction,
\* evaluate_opportunity returns a result: no U256 operation of the detector
\* leaves the 256 bits and aborts the unit of work.
C30_DetectorArithmeticInRange ==
    \A t \in Tasks :
        (tasks[t].fetched = "some" /\ ~log_transaction_panics(UnitTx(t)))
            => /\ tasks[t].pc # "panicked"
               /\ tasks[t].opp.kind # "Panic"

=============================================================================
